---- MODULE Spec2Model ----
(***************************************************************************)
(* sashay: type-erased references (AnyRef, AnyMut) and slices              *)
(* (AnySliceRef, AnySliceMut).  The model is a caller that owns one array  *)
(* `data` of N elements of a type T, erases references into it, and calls  *)
(* the library's operations on the handles it holds.                       *)
(***************************************************************************)
EXTENDS Integers, Sequences, FiniteSets, TLC

\* ------------------------------------------------------------------ bounds

\* Largest number of elements of the caller's array.
MaxLen == 2
\* Largest number of library calls in a run.
MaxCalls == 3
\* Largest number of subslice calls in a run.
MaxSub == 2
\* Largest number of calls in a run that converts a handle into a pointer.
MaxPtrCalls == 4
\* Width of usize in bits (16 is the narrowest usize a Rust target has).
UsizeBits == 16

\* ------------------------------------------------------- the machine's usize

Modulus == 2 ^ UsizeBits
UsizeMax == Modulus - 1

\* ------------------------------------------------------------- state

VARIABLES
    T,                \* the element type of the caller's array
    base,             \* the address of data[1]
    data,             \* the caller's array (the memory every handle points into)
    overflow_checks,  \* the build profile: does `+` panic on overflow (debug)?
    handles,          \* what each call so far returned, in call order
    res               \* the last step: operation, receiver, argument, result

vars == <<T, base, data, overflow_checks, handles, res>>

\* ------------------------------------------------------------- types

\* The static types of the model: a zero-sized type and two four-byte types
\* (one of them padded), so that a type is not told by its size.
Types == {"unit", "i32", "u8_u16"}

\* core::mem::size_of::<T>()
size_of(ty) ==
    CASE ty = "unit" -> 0
      [] ty = "i32" -> 4
      [] ty = "u8_u16" -> 4

\* core::any::TypeId::of::<T>(): an opaque id, unique per type.
TypeId_of(ty) ==
    CASE ty = "unit" -> 7001
      [] ty = "i32" -> 7003
      [] ty = "u8_u16" -> 7004

\* The value the caller stores in element i (1-based) of an array of ty, as
\* the tuple of its fields: distinct per element, except for the zero-sized
\* type, which has one value.
InitElem(ty, i) ==
    CASE ty = "unit" -> <<>>
      [] ty = "i32" -> <<0 - (10 * i)>>
      [] ty = "u8_u16" -> <<i, 100 + i>>

\* The value the caller writes through a restored exclusive reference.
FillValue(ty) ==
    CASE ty = "unit" -> <<>>
      [] ty = "i32" -> <<99>>
      [] ty = "u8_u16" -> <<10, 10>>

\* Addresses at which the caller's array may live (aligned for every type).
Bases == {16}

\* What a read that is undefined behaviour yields: no value of any type.
UB == <<0, 0, 0>>

\* The result of a call: Option<X>, a plain X, or a panic.
None == [panic |-> FALSE, some |-> FALSE]
Some(x) == [panic |-> FALSE, some |-> TRUE, val |-> x]
Ret(x) == [panic |-> FALSE, val |-> x]
Panicked == [panic |-> TRUE]

\* ------------------------------------------------------------- memory

\* &data[i] as *const T: the address of element i (1-based) of the array.
ElemAddr(i) == base + (i - 1) * size_of(T)

\* Reading a value of type ty at address addr.  A zero-sized read touches no
\* memory.  Anything but an element of the array read at its own type is
\* undefined behaviour.
ReadAt(addr, ty) ==
    IF ty # T THEN UB
    ELSE IF size_of(ty) = 0 THEN <<>>
    ELSE IF \E i \in 1..Len(data) : ElemAddr(i) = addr
         THEN data[CHOOSE i \in 1..Len(data) : ElemAddr(i) = addr]
         ELSE UB

\* Writing value v of type ty at address addr: the array afterwards.
WriteAt(addr, ty, v) ==
    IF ty = T /\ size_of(ty) > 0 /\ \E i \in 1..Len(data) : ElemAddr(i) = addr
    THEN [data EXCEPT ![CHOOSE i \in 1..Len(data) : ElemAddr(i) = addr] = v]
    ELSE data

\* ptr.wrapping_add(count) on a byte pointer.
wrapping_add(ptr, count) == (ptr + count) % Modulus

\* usize `a + b`: panics on overflow when overflow checks are on (debug
\* builds), wraps otherwise (release builds).
usize_add(a, b) ==
    IF a + b > UsizeMax
    THEN (IF overflow_checks THEN [panic |-> TRUE] ELSE [panic |-> FALSE, v |-> (a + b) % Modulus])
    ELSE [panic |-> FALSE, v |-> a + b]

\* usize `a * b`, likewise.
usize_mul(a, b) ==
    IF a * b > UsizeMax
    THEN (IF overflow_checks THEN [panic |-> TRUE] ELSE [panic |-> FALSE, v |-> (a * b) % Modulus])
    ELSE [panic |-> FALSE, v |-> a * b]

Min(a, b) == IF a <= b THEN a ELSE b

\* ------------------------------------------------------------- range.rs

\* core::ops::Bound<usize>
Included(x) == [b |-> "Included", v |-> x]
Excluded(x) == [b |-> "Excluded", v |-> x]
Unbounded == [b |-> "Unbounded", v |-> 0]

\* The bound values a caller passes: every index up to the length of the
\* largest array (an inclusive end or exclusive start of that value lies past
\* every array), and usize::MAX.
BoundValues == (0..MaxLen) \cup {UsizeMax}
Bounds == {Included(x) : x \in BoundValues} \cup {Excluded(x) : x \in BoundValues} \cup {Unbounded}

\* Every R: RangeBounds<usize>.
RangeExprs == [start : Bounds, end : Bounds]

\* The start of constrain_range, before `.min(len)`.
range_start(range) ==
    CASE range.start.b = "Included" -> [panic |-> FALSE, v |-> range.start.v]
      [] range.start.b = "Excluded" -> usize_add(range.start.v, 1)
      [] range.start.b = "Unbounded" -> [panic |-> FALSE, v |-> 0]

\* The end of constrain_range, before `.min(len)`.
range_end(len, range) ==
    CASE range.end.b = "Included" -> usize_add(range.end.v, 1)
      [] range.end.b = "Excluded" -> [panic |-> FALSE, v |-> range.end.v]
      [] range.end.b = "Unbounded" -> [panic |-> FALSE, v |-> len]

\* A faulty constrain_range: the `.min(len)` of the start is missing.
constrain_range_start_unclamped(len, range) ==
    LET s == range_start(range)
        e == range_end(len, range)
    IN  IF s.panic \/ e.panic
        THEN [panic |-> TRUE]
        ELSE [panic |-> FALSE, start |-> s.v, end |-> Min(e.v, len)]

\* constrain_range(len, range): start..end, or a panic where an addition
\* overflowed under overflow checks.
constrain_range(len, range) ==
    LET s == range_start(range)
        e == range_end(len, range)
    IN  IF s.panic \/ e.panic
        THEN [panic |-> TRUE]
        ELSE [panic |-> FALSE, start |-> Min(s.v, len), end |-> Min(e.v, len)]

\* <Range<usize> as ExactSizeIterator>::len(): 0 when start >= end.
Range_len(r) == IF r.start < r.end THEN r.end - r.start ELSE 0

\* ------------------------------------------------------------- references

\* What the caller passes to erase(): `&data[i]` and `&mut data[i]` (i
\* 1-based), `&data[a..b]` and `&mut data[a..b]` (a, b 0-based as in Rust).
RefTo(i) == [kind |-> "&T", ptr |-> ElemAddr(i), ty |-> T]
MutTo(i) == [kind |-> "&mut T", ptr |-> ElemAddr(i), ty |-> T]
SliceOf(a, b) == [kind |-> "&[T]", ptr |-> ElemAddr(a + 1), len |-> b - a, ty |-> T]
SliceMutOf(a, b) == [kind |-> "&mut [T]", ptr |-> ElemAddr(a + 1), len |-> b - a, ty |-> T]

\* `&*ptr.cast::<U>()` and `&mut *ptr.cast::<U>()`
TypedRef(ptr, U) == [kind |-> "&T", ptr |-> ptr, ty |-> U]
TypedMut(ptr, U) == [kind |-> "&mut T", ptr |-> ptr, ty |-> U]

\* core::slice::from_raw_parts / from_raw_parts_mut
slice_from_raw_parts(ptr, len, U) == [kind |-> "&[T]", ptr |-> ptr, len |-> len, ty |-> U]
slice_from_raw_parts_mut(ptr, len, U) == [kind |-> "&mut [T]", ptr |-> ptr, len |-> len, ty |-> U]

\* `*r` for a restored reference r to one value.
Deref(r) == ReadAt(r.ptr, r.ty)

\* `r[i]` (0-based) for a restored slice r.
Index(r, i) == ReadAt(r.ptr + i * size_of(r.ty), r.ty)

\* ------------------------------------------------------------- any_ref.rs

AnyRef_from_raw_parts(ptr, type_id) ==
    [kind |-> "AnyRef", ptr |-> ptr, type_id |-> type_id]

\* A faulty erase: it erases the address of its parameter `reference` itself
\* (a stack slot far from the array), not the address the parameter holds.
AnyRef_erase_addr_of_param(reference) ==
    AnyRef_from_raw_parts(wrapping_add(reference.ptr, Modulus \div 2), TypeId_of(reference.ty))

AnyRef_erase(reference) ==
    AnyRef_from_raw_parts(reference.ptr, TypeId_of(reference.ty))

\* A faulty contains: the comparison inverted.
AnyRef_contains_inverted(self, U) == TypeId_of(U) # self.type_id

AnyRef_contains(self, U) == TypeId_of(U) = self.type_id

AnyRef_unerase(self, U) ==
    IF AnyRef_contains(self, U) THEN Some(TypedRef(self.ptr, U)) ELSE None

AnyRef_unerase_into(self, U) ==
    IF AnyRef_contains(self, U) THEN Some(TypedRef(self.ptr, U)) ELSE None

AnyRef_as_ptr(self) == self.ptr

AnyRef_type_id(self) == self.type_id

\* ------------------------------------------------------------- any_mut.rs

AnyMut_from_raw_parts(ptr, type_id) ==
    [kind |-> "AnyMut", ptr |-> ptr, type_id |-> type_id]

\* A faulty erase: it moves the value to a temporary (far from the array) and
\* erases a pointer to that copy.
AnyMut_erase_copy(reference) ==
    AnyMut_from_raw_parts(wrapping_add(reference.ptr, Modulus \div 2), TypeId_of(reference.ty))

AnyMut_erase(reference) ==
    AnyMut_from_raw_parts(reference.ptr, TypeId_of(reference.ty))

AnyMut_contains(self, U) == TypeId_of(U) = self.type_id

AnyMut_unerase(self, U) ==
    IF AnyMut_contains(self, U) THEN Some(TypedRef(self.ptr, U)) ELSE None

AnyMut_unerase_mut(self, U) ==
    IF AnyMut_contains(self, U) THEN Some(TypedMut(self.ptr, U)) ELSE None

AnyMut_unerase_into(self, U) ==
    IF AnyMut_contains(self, U) THEN Some(TypedMut(self.ptr, U)) ELSE None

\* A faulty borrow: it erases the address of `self` (the handle, far from the
\* array), not the address the handle holds.
AnyMut_borrow_addr_of_self(self) ==
    AnyRef_from_raw_parts(wrapping_add(self.ptr, Modulus \div 2), self.type_id)

AnyMut_borrow(self) == AnyRef_from_raw_parts(self.ptr, self.type_id)

AnyMut_as_ptr(self) == self.ptr

AnyMut_type_id(self) == self.type_id

\* ------------------------------------------------------------- any_slice_ref.rs

AnySliceRef_from_raw_parts(ptr, len, stride, type_id) ==
    [kind |-> "AnySliceRef", ptr |-> ptr, len |-> len, stride |-> stride, type_id |-> type_id]

\* A faulty erase: the stride is the size of the whole slice
\* (size_of_val(slice)), not the size of one element.
AnySliceRef_erase_stride_of_val(slice) ==
    AnySliceRef_from_raw_parts(slice.ptr, slice.len, slice.len * size_of(slice.ty),
                               TypeId_of(slice.ty))

AnySliceRef_erase(slice) ==
    AnySliceRef_from_raw_parts(slice.ptr, slice.len, size_of(slice.ty), TypeId_of(slice.ty))

AnySliceRef_contains(self, U) == TypeId_of(U) = self.type_id

AnySliceRef_unerase(self, U) ==
    IF AnySliceRef_contains(self, U)
    THEN Some(slice_from_raw_parts(self.ptr, self.len, U))
    ELSE None

AnySliceRef_unerase_into(self, U) ==
    IF AnySliceRef_contains(self, U)
    THEN Some(slice_from_raw_parts(self.ptr, self.len, U))
    ELSE None

\* A faulty get: the index is added to the pointer as a byte offset, not
\* multiplied by the stride.
AnySliceRef_get_byte_index(self, index) ==
    IF index < self.len
    THEN Some(AnyRef_from_raw_parts(wrapping_add(self.ptr, index), self.type_id))
    ELSE None

AnySliceRef_get(self, index) ==
    IF index < self.len
    THEN LET off == usize_mul(index, self.stride)
         IN  IF off.panic THEN Panicked
             ELSE Some(AnyRef_from_raw_parts(wrapping_add(self.ptr, off.v), self.type_id))
    ELSE None

\* A faulty subslice: the pointer advances by range.start bytes, not by
\* range.start elements.
AnySliceRef_subslice_byte_offset(self, range) ==
    LET r == constrain_range(self.len, range)
    IN  IF r.panic THEN Panicked
        ELSE Ret(AnySliceRef_from_raw_parts(
                 wrapping_add(self.ptr, r.start), Range_len(r), self.stride, self.type_id))

AnySliceRef_subslice(self, range) ==
    LET r == constrain_range(self.len, range)
    IN  IF r.panic THEN Panicked
        ELSE LET off == usize_mul(self.stride, r.start)
             IN  IF off.panic THEN Panicked
                 ELSE Ret(AnySliceRef_from_raw_parts(
                          wrapping_add(self.ptr, off.v), Range_len(r), self.stride, self.type_id))

\* A faulty subslice_into: the length is range.end, not range.len().
AnySliceRef_subslice_into_len_end(self, range) ==
    LET r == constrain_range(self.len, range)
    IN  IF r.panic THEN Panicked
        ELSE LET off == usize_mul(self.stride, r.start)
             IN  IF off.panic THEN Panicked
                 ELSE Ret(AnySliceRef_from_raw_parts(
                          wrapping_add(self.ptr, off.v), r.end, self.stride, self.type_id))

AnySliceRef_subslice_into(self, range) ==
    LET r == constrain_range(self.len, range)
    IN  IF r.panic THEN Panicked
        ELSE LET off == usize_mul(self.stride, r.start)
             IN  IF off.panic THEN Panicked
                 ELSE Ret(AnySliceRef_from_raw_parts(
                          wrapping_add(self.ptr, off.v), Range_len(r), self.stride, self.type_id))

AnySliceRef_as_ptr(self) == self.ptr

AnySliceRef_len(self) == self.len

AnySliceRef_is_empty(self) == self.len = 0

AnySliceRef_stride(self) == self.stride

AnySliceRef_type_id(self) == self.type_id

\* ------------------------------------------------------------- any_slice_mut.rs

\* A faulty from_raw_parts: len and stride are stored in each other's field.
AnySliceMut_from_raw_parts_swapped(ptr, len, stride, type_id) ==
    [kind |-> "AnySliceMut", ptr |-> ptr, len |-> stride, stride |-> len, type_id |-> type_id]

AnySliceMut_from_raw_parts(ptr, len, stride, type_id) ==
    [kind |-> "AnySliceMut", ptr |-> ptr, len |-> len, stride |-> stride, type_id |-> type_id]

\* A faulty erase: it records the length in bytes, not in elements.
AnySliceMut_erase_byte_len(slice) ==
    AnySliceMut_from_raw_parts(slice.ptr, slice.len * size_of(slice.ty), size_of(slice.ty),
                               TypeId_of(slice.ty))

AnySliceMut_erase(slice) ==
    AnySliceMut_from_raw_parts(slice.ptr, slice.len, size_of(slice.ty), TypeId_of(slice.ty))

\* A faulty contains: it compares the size of U with the stride, not the tags.
AnySliceMut_contains_by_size(self, U) == size_of(U) = self.stride

AnySliceMut_contains(self, U) == TypeId_of(U) = self.type_id

AnySliceMut_unerase(self, U) ==
    IF AnySliceMut_contains(self, U)
    THEN Some(slice_from_raw_parts(self.ptr, self.len, U))
    ELSE None

\* A faulty unerase_mut: the slice is given the length in bytes, not in
\* elements.
AnySliceMut_unerase_mut_byte_len(self, U) ==
    IF AnySliceMut_contains(self, U)
    THEN Some(slice_from_raw_parts_mut(self.ptr, self.len * self.stride, U))
    ELSE None

AnySliceMut_unerase_mut(self, U) ==
    IF AnySliceMut_contains(self, U)
    THEN Some(slice_from_raw_parts_mut(self.ptr, self.len, U))
    ELSE None

AnySliceMut_unerase_into(self, U) ==
    IF AnySliceMut_contains(self, U)
    THEN Some(slice_from_raw_parts_mut(self.ptr, self.len, U))
    ELSE None

\* A faulty borrow: len and stride are passed in each other's place.
AnySliceMut_borrow_swapped(self) ==
    AnySliceRef_from_raw_parts(self.ptr, self.stride, self.len, self.type_id)

AnySliceMut_borrow(self) ==
    AnySliceRef_from_raw_parts(self.ptr, self.len, self.stride, self.type_id)

AnySliceMut_borrow_mut(self) ==
    AnySliceMut_from_raw_parts(self.ptr, self.len, self.stride, self.type_id)

AnySliceMut_get(self, index) ==
    IF index < self.len
    THEN LET off == usize_mul(index, self.stride)
         IN  IF off.panic THEN Panicked
             ELSE Some(AnyRef_from_raw_parts(wrapping_add(self.ptr, off.v), self.type_id))
    ELSE None

\* A faulty get_mut: the index counts from the end of the view.
AnySliceMut_get_mut_reversed(self, index) ==
    IF index < self.len
    THEN LET off == usize_mul(self.len - 1 - index, self.stride)
         IN  IF off.panic THEN Panicked
             ELSE Some(AnyMut_from_raw_parts(wrapping_add(self.ptr, off.v), self.type_id))
    ELSE None

\* A faulty get_mut: the bounds check admits index = len.
AnySliceMut_get_mut_le(self, index) ==
    IF index <= self.len
    THEN LET off == usize_mul(index, self.stride)
         IN  IF off.panic THEN Panicked
             ELSE Some(AnyMut_from_raw_parts(wrapping_add(self.ptr, off.v), self.type_id))
    ELSE None

AnySliceMut_get_mut(self, index) ==
    IF index < self.len
    THEN LET off == usize_mul(index, self.stride)
         IN  IF off.panic THEN Panicked
             ELSE Some(AnyMut_from_raw_parts(wrapping_add(self.ptr, off.v), self.type_id))
    ELSE None

\* A faulty subslice: the pointer is advanced but the length stays that of
\* the whole view.
AnySliceMut_subslice_len_of_self(self, range) ==
    LET r == constrain_range(self.len, range)
    IN  IF r.panic THEN Panicked
        ELSE LET off == usize_mul(self.stride, r.start)
             IN  IF off.panic THEN Panicked
                 ELSE Ret(AnySliceRef_from_raw_parts(
                          wrapping_add(self.ptr, off.v), self.len, self.stride, self.type_id))

AnySliceMut_subslice(self, range) ==
    LET r == constrain_range(self.len, range)
    IN  IF r.panic THEN Panicked
        ELSE LET off == usize_mul(self.stride, r.start)
             IN  IF off.panic THEN Panicked
                 ELSE Ret(AnySliceRef_from_raw_parts(
                          wrapping_add(self.ptr, off.v), Range_len(r), self.stride, self.type_id))

\* A faulty subslice_mut: the pointer is not advanced to range.start.
AnySliceMut_subslice_mut_ptr_unchanged(self, range) ==
    LET r == constrain_range(self.len, range)
    IN  IF r.panic THEN Panicked
        ELSE Ret(AnySliceMut_from_raw_parts(self.ptr, Range_len(r), self.stride, self.type_id))

AnySliceMut_subslice_mut(self, range) ==
    LET r == constrain_range(self.len, range)
    IN  IF r.panic THEN Panicked
        ELSE LET off == usize_mul(self.stride, r.start)
             IN  IF off.panic THEN Panicked
                 ELSE Ret(AnySliceMut_from_raw_parts(
                          wrapping_add(self.ptr, off.v), Range_len(r), self.stride, self.type_id))

AnySliceMut_subslice_into(self, range) ==
    LET r == constrain_range(self.len, range)
    IN  IF r.panic THEN Panicked
        ELSE LET off == usize_mul(self.stride, r.start)
             IN  IF off.panic THEN Panicked
                 ELSE Ret(AnySliceMut_from_raw_parts(
                          wrapping_add(self.ptr, off.v), Range_len(r), self.stride, self.type_id))

AnySliceMut_as_ptr(self) == self.ptr

AnySliceMut_len(self) == self.len

AnySliceMut_is_empty(self) == self.len = 0

AnySliceMut_stride(self) == self.stride

AnySliceMut_type_id(self) == self.type_id


\* ------------------------------------------------------------- borrows

\* An entry of `handles`: the handle or reference v a call returned, with the
\* call that returned it (operation `by`, receiver `recv`, argument `arg`);
\* the entry it borrows from (`parent`, 0: the caller's array itself) and
\* whether that borrow is exclusive; whether it is still usable ("live"), its
\* borrow has ended ("dead") or it was moved out of ("consumed"); and, for
\* what erase returned, the caller's reference that was erased (`from`).
Entry(v, by, recv, arg, parent, excl, from) ==
    [v |-> v, by |-> by, recv |-> recv, arg |-> arg, parent |-> parent, excl |-> excl,
     st |-> "live", from |-> from]

\* No reference: the `from` of an entry that erase did not return.
NoRef == [kind |-> "none"]

\* The entry of a call that returned no handle: None, a bool, or nothing at
\* all (a panic).
Plain ==
    [v |-> [kind |-> "value"], by |-> "none", recv |-> 0, arg |-> 0, parent |-> 0, excl |-> FALSE,
     st |-> "live", from |-> NoRef]

Live(h) == h \in DOMAIN handles /\ handles[h].st = "live"

HasKind(h, k) == Live(h) /\ handles[h].v.kind = k

\* A panic unwinds the caller: no call follows it.
CanCall == Len(handles) < MaxCalls /\ ~res.out.panic

SubsliceOps ==
    {"AnySliceRef::subslice", "AnySliceRef::subslice_into", "AnySliceMut::subslice",
     "AnySliceMut::subslice_mut", "AnySliceMut::subslice_into"}

CanSub == Cardinality({i \in DOMAIN handles : handles[i].by \in SubsliceOps}) < MaxSub

\* d borrows, directly or through other entries, from h.
RECURSIVE DescOf(_, _)
DescOf(d, h) ==
    /\ d \in DOMAIN handles
    /\ handles[d].v.kind # "value"
    /\ \/ handles[d].parent = h
       \/ handles[d].parent # 0 /\ DescOf(handles[d].parent, h)

\* d borrows from h through an exclusive borrow of h.
ExclBranch(d, h) ==
    \E c \in DOMAIN handles :
        /\ handles[c].v.kind # "value"
        /\ handles[c].parent = h
        /\ handles[c].excl
        /\ (d = c \/ DescOf(d, c))

\* A faulty borrow discipline: moving h away ends no borrow of h, as if
\* `unerase(&self) -> Option<&'a T>` returned a reference with the lifetime
\* of the original borrow.
Killed_move_spares(h, access) ==
    IF access = "ref"
    THEN {d \in DOMAIN handles : ExclBranch(d, h)}
    ELSE IF access = "move"
         THEN {}
         ELSE {d \in DOMAIN handles : DescOf(d, h)}

\* A faulty borrow discipline: every use of h ends only the exclusive borrows
\* of h, as if get_mut, subslice_mut and borrow_mut took `&self`.
Killed_exclusive_only(h, access) == {d \in DOMAIN handles : ExclBranch(d, h)}

\* The borrows that end when h (0: the array) is used through `&self`
\* ("ref"), through `&mut self` ("mut") or by value ("move"): a shared use
\* ends the exclusive borrows of h, an exclusive use or a move ends them all.
Killed(h, access) ==
    IF access = "ref"
    THEN {d \in DOMAIN handles : ExclBranch(d, h)}
    ELSE {d \in DOMAIN handles : DescOf(d, h)}

\* A faulty call: it takes the length out of the view it is called on, as if
\* the operation advanced `self` in place.
After_takes_len(h, access) ==
    [i \in DOMAIN handles |->
        IF handles[i].st = "live" /\ i \in Killed(h, access)
        THEN [handles[i] EXCEPT !.st = "dead"]
        ELSE IF i = h /\ access = "move"
             THEN [handles[i] EXCEPT !.st = "consumed"]
             ELSE IF i = h /\ handles[i].v.kind \in {"AnySliceRef", "AnySliceMut"}
                  THEN [handles[i] EXCEPT !.v.len = 0]
                  ELSE handles[i]]

\* A faulty move: the handle passed by value stays live, as if AnyMut and
\* AnySliceMut derived Copy.
After_copy(h, access) ==
    [i \in DOMAIN handles |->
        IF handles[i].st = "live" /\ i \in Killed(h, access)
        THEN [handles[i] EXCEPT !.st = "dead"]
        ELSE handles[i]]

After(h, access) ==
    [i \in DOMAIN handles |->
        IF handles[i].st = "live" /\ i \in Killed(h, access)
        THEN [handles[i] EXCEPT !.st = "dead"]
        ELSE IF i = h /\ access = "move"
             THEN [handles[i] EXCEPT !.st = "consumed"]
             ELSE handles[i]]

\* Did the call return a handle or a reference (mode "none": it returns a
\* plain value)?
Produced(mode, out) ==
    mode # "none" /\ ~out.panic /\ (("some" \in DOMAIN out) => out.some)

\* A faulty call: what every operation returns carries the lifetime 'a of the
\* original borrow, as if `borrow_mut(&mut self) -> AnySliceMut<'a>`, so it
\* does not borrow from the handle it was taken from.
Call_lifetime_of_original(op, h, access, mode, arg, out) ==
    /\ handles' = Append(After(h, access),
          IF Produced(mode, out)
          THEN Entry(out.val, op, h, arg,
                     handles[h].parent,
                     IF mode = "into" THEN handles[h].excl ELSE mode = "mut",
                     NoRef)
          ELSE Plain)
    /\ res' = [op |-> op, h |-> h, arg |-> arg, out |-> out, new |-> Len(handles) + 1]
    /\ UNCHANGED <<T, base, data, overflow_checks>>

\* A call of `op` on entry h with argument arg that returned out.  The
\* handle or reference returned, when there is one, borrows from h ("ref":
\* shared, "mut": exclusive) or, for the consuming operations ("into"), takes
\* over h's own borrow.
Call(op, h, access, mode, arg, out) ==
    /\ handles' = Append(After(h, access),
          IF Produced(mode, out)
          THEN Entry(out.val, op, h, arg,
                     IF mode = "into" THEN handles[h].parent ELSE h,
                     IF mode = "into" THEN handles[h].excl ELSE mode = "mut",
                     NoRef)
          ELSE Plain)
    /\ res' = [op |-> op, h |-> h, arg |-> arg, out |-> out, new |-> Len(handles) + 1]
    /\ UNCHANGED <<T, base, data, overflow_checks>>

\* Erasing the reference the caller takes to its array: a new entry that
\* borrows from the array itself.
Erase(op, access, arg, reference, v) ==
    /\ CanCall
    /\ handles' = Append(After(0, access), Entry(v, op, 0, arg, 0, access = "mut", reference))
    /\ res' = [op |-> op, h |-> 0, arg |-> arg, out |-> Ret(v), new |-> Len(handles) + 1]
    /\ UNCHANGED <<T, base, data, overflow_checks>>

\* ------------------------------------------------------------- actions

Init ==
    /\ T \in Types
    /\ base \in Bases
    /\ overflow_checks \in BOOLEAN
    /\ \E n \in 0..MaxLen : data = [i \in 1..n |-> InitElem(T, i)]
    /\ handles = << >>
    /\ res = [op |-> "init", h |-> 0, arg |-> 0, out |-> None, new |-> 0]

\* Index arguments of get / get_mut.
IndexValues == (0..MaxLen) \cup {UsizeMax}

\* AnyRef --------------------------------------------------------------

DoAnyRefErase ==
    \E i \in 1..Len(data) :
        Erase("AnyRef::erase", "ref", i, RefTo(i), AnyRef_erase(RefTo(i)))

DoAnyRefUnerase(h) ==
    /\ HasKind(h, "AnyRef") /\ CanCall
    /\ \E U \in Types :
        Call("AnyRef::unerase", h, "ref", "ref", U, AnyRef_unerase(handles[h].v, U))

\* AnyRef is Copy: the call consumes a copy, and the handle stays usable.
DoAnyRefUneraseInto(h) ==
    /\ HasKind(h, "AnyRef") /\ CanCall
    /\ \E U \in Types :
        Call("AnyRef::unerase_into", h, "ref", "into", U,
             AnyRef_unerase_into(handles[h].v, U))

DoAnyRefContains(h) ==
    /\ HasKind(h, "AnyRef") /\ CanCall
    /\ \E U \in Types :
        Call("AnyRef::contains", h, "ref", "none", U, Ret(AnyRef_contains(handles[h].v, U)))

\* AnyMut --------------------------------------------------------------

DoAnyMutErase ==
    \E i \in 1..Len(data) :
        Erase("AnyMut::erase", "mut", i, MutTo(i), AnyMut_erase(MutTo(i)))

DoAnyMutUnerase(h) ==
    /\ HasKind(h, "AnyMut") /\ CanCall
    /\ \E U \in Types :
        Call("AnyMut::unerase", h, "ref", "ref", U, AnyMut_unerase(handles[h].v, U))

DoAnyMutUneraseMut(h) ==
    /\ HasKind(h, "AnyMut") /\ CanCall
    /\ \E U \in Types :
        Call("AnyMut::unerase_mut", h, "mut", "mut", U, AnyMut_unerase_mut(handles[h].v, U))

DoAnyMutUneraseInto(h) ==
    /\ HasKind(h, "AnyMut") /\ CanCall
    /\ \E U \in Types :
        Call("AnyMut::unerase_into", h, "move", "into", U,
             AnyMut_unerase_into(handles[h].v, U))

DoAnyMutBorrow(h) ==
    /\ HasKind(h, "AnyMut") /\ CanCall
    /\ Call("AnyMut::borrow", h, "ref", "ref", 0, Ret(AnyMut_borrow(handles[h].v)))

DoAnyMutContains(h) ==
    /\ HasKind(h, "AnyMut") /\ CanCall
    /\ \E U \in Types :
        Call("AnyMut::contains", h, "ref", "none", U, Ret(AnyMut_contains(handles[h].v, U)))

\* AnySliceRef ---------------------------------------------------------

DoAnySliceRefErase ==
    \E a \in 0..Len(data) : \E b \in a..Len(data) :
        Erase("AnySliceRef::erase", "ref", <<a, b>>, SliceOf(a, b),
              AnySliceRef_erase(SliceOf(a, b)))

DoAnySliceRefUnerase(h) ==
    /\ HasKind(h, "AnySliceRef") /\ CanCall
    /\ \E U \in Types :
        Call("AnySliceRef::unerase", h, "ref", "ref", U, AnySliceRef_unerase(handles[h].v, U))

\* AnySliceRef is Copy as well.
DoAnySliceRefUneraseInto(h) ==
    /\ HasKind(h, "AnySliceRef") /\ CanCall
    /\ \E U \in Types :
        Call("AnySliceRef::unerase_into", h, "ref", "into", U,
             AnySliceRef_unerase_into(handles[h].v, U))

DoAnySliceRefGet(h) ==
    /\ HasKind(h, "AnySliceRef") /\ CanCall
    /\ \E index \in IndexValues :
        Call("AnySliceRef::get", h, "ref", "ref", index,
             AnySliceRef_get(handles[h].v, index))

\* A subslice call records as its argument the local `range`: what
\* constrain_range made of the range expression.
DoAnySliceRefSubslice(h) ==
    /\ HasKind(h, "AnySliceRef") /\ CanCall /\ CanSub
    /\ \E expr \in RangeExprs :
        LET range == constrain_range(handles[h].v.len, expr)
        IN  Call("AnySliceRef::subslice", h, "ref", "ref", range,
                 AnySliceRef_subslice(handles[h].v, expr))

DoAnySliceRefSubsliceInto(h) ==
    /\ HasKind(h, "AnySliceRef") /\ CanCall /\ CanSub
    /\ \E expr \in RangeExprs :
        LET range == constrain_range(handles[h].v.len, expr)
        IN  Call("AnySliceRef::subslice_into", h, "ref", "into", range,
                 AnySliceRef_subslice_into(handles[h].v, expr))

DoAnySliceRefContains(h) ==
    /\ HasKind(h, "AnySliceRef") /\ CanCall
    /\ \E U \in Types :
        Call("AnySliceRef::contains", h, "ref", "none", U,
             Ret(AnySliceRef_contains(handles[h].v, U)))

\* AnySliceMut ---------------------------------------------------------

DoAnySliceMutErase ==
    \E a \in 0..Len(data) : \E b \in a..Len(data) :
        Erase("AnySliceMut::erase", "mut", <<a, b>>, SliceMutOf(a, b),
              AnySliceMut_erase(SliceMutOf(a, b)))

DoAnySliceMutUnerase(h) ==
    /\ HasKind(h, "AnySliceMut") /\ CanCall
    /\ \E U \in Types :
        Call("AnySliceMut::unerase", h, "ref", "ref", U, AnySliceMut_unerase(handles[h].v, U))

DoAnySliceMutUneraseMut(h) ==
    /\ HasKind(h, "AnySliceMut") /\ CanCall
    /\ \E U \in Types :
        Call("AnySliceMut::unerase_mut", h, "mut", "mut", U,
             AnySliceMut_unerase_mut(handles[h].v, U))

DoAnySliceMutUneraseInto(h) ==
    /\ HasKind(h, "AnySliceMut") /\ CanCall
    /\ \E U \in Types :
        Call("AnySliceMut::unerase_into", h, "move", "into", U,
             AnySliceMut_unerase_into(handles[h].v, U))

DoAnySliceMutBorrow(h) ==
    /\ HasKind(h, "AnySliceMut") /\ CanCall
    /\ Call("AnySliceMut::borrow", h, "ref", "ref", 0, Ret(AnySliceMut_borrow(handles[h].v)))

DoAnySliceMutBorrowMut(h) ==
    /\ HasKind(h, "AnySliceMut") /\ CanCall
    /\ Call("AnySliceMut::borrow_mut", h, "mut", "mut", 0,
            Ret(AnySliceMut_borrow_mut(handles[h].v)))

DoAnySliceMutGet(h) ==
    /\ HasKind(h, "AnySliceMut") /\ CanCall
    /\ \E index \in IndexValues :
        Call("AnySliceMut::get", h, "ref", "ref", index,
             AnySliceMut_get(handles[h].v, index))

DoAnySliceMutGetMut(h) ==
    /\ HasKind(h, "AnySliceMut") /\ CanCall
    /\ \E index \in IndexValues :
        Call("AnySliceMut::get_mut", h, "mut", "mut", index,
             AnySliceMut_get_mut(handles[h].v, index))

DoAnySliceMutSubslice(h) ==
    /\ HasKind(h, "AnySliceMut") /\ CanCall /\ CanSub
    /\ \E expr \in RangeExprs :
        LET range == constrain_range(handles[h].v.len, expr)
        IN  Call("AnySliceMut::subslice", h, "ref", "ref", range,
                 AnySliceMut_subslice(handles[h].v, expr))

DoAnySliceMutSubsliceMut(h) ==
    /\ HasKind(h, "AnySliceMut") /\ CanCall /\ CanSub
    /\ \E expr \in RangeExprs :
        LET range == constrain_range(handles[h].v.len, expr)
        IN  Call("AnySliceMut::subslice_mut", h, "mut", "mut", range,
                 AnySliceMut_subslice_mut(handles[h].v, expr))

DoAnySliceMutSubsliceInto(h) ==
    /\ HasKind(h, "AnySliceMut") /\ CanCall /\ CanSub
    /\ \E expr \in RangeExprs :
        LET range == constrain_range(handles[h].v.len, expr)
        IN  Call("AnySliceMut::subslice_into", h, "move", "into", range,
                 AnySliceMut_subslice_into(handles[h].v, expr))

DoAnySliceMutContains(h) ==
    /\ HasKind(h, "AnySliceMut") /\ CanCall
    /\ \E U \in Types :
        Call("AnySliceMut::contains", h, "ref", "none", U,
             Ret(AnySliceMut_contains(handles[h].v, U)))

\* The caller ----------------------------------------------------------

\* `*r = v` through a restored `&mut T`.
DoWrite(h) ==
    /\ HasKind(h, "&mut T") /\ ~res.out.panic
    /\ data' = WriteAt(handles[h].v.ptr, handles[h].v.ty, FillValue(handles[h].v.ty))
    /\ handles' = After(h, "mut")
    /\ res' = [op |-> "write", h |-> h, arg |-> 0,
               out |-> Ret(FillValue(handles[h].v.ty)), new |-> 0]
    /\ UNCHANGED <<T, base, overflow_checks>>

\* `r[j] = v` through a restored `&mut [T]` (j in bounds: the slice's own
\* indexing panics otherwise).
DoWriteElem(h) ==
    /\ HasKind(h, "&mut [T]") /\ ~res.out.panic
    /\ \E j \in 0..(handles[h].v.len - 1) :
        /\ data' = WriteAt(handles[h].v.ptr + j * size_of(handles[h].v.ty), handles[h].v.ty,
                           FillValue(handles[h].v.ty))
        /\ res' = [op |-> "write_elem", h |-> h, arg |-> j,
                   out |-> Ret(FillValue(handles[h].v.ty)), new |-> 0]
    /\ handles' = After(h, "mut")
    /\ UNCHANGED <<T, base, overflow_checks>>

Next ==
    \/ DoAnyRefErase
    \/ \E h \in DOMAIN handles : DoAnyRefUnerase(h)
    \/ \E h \in DOMAIN handles : DoAnyRefUneraseInto(h)
    \/ \E h \in DOMAIN handles : DoAnyRefContains(h)
    \/ DoAnyMutErase
    \/ \E h \in DOMAIN handles : DoAnyMutUnerase(h)
    \/ \E h \in DOMAIN handles : DoAnyMutUneraseMut(h)
    \/ \E h \in DOMAIN handles : DoAnyMutUneraseInto(h)
    \/ \E h \in DOMAIN handles : DoAnyMutBorrow(h)
    \/ \E h \in DOMAIN handles : DoAnyMutContains(h)
    \/ DoAnySliceRefErase
    \/ \E h \in DOMAIN handles : DoAnySliceRefUnerase(h)
    \/ \E h \in DOMAIN handles : DoAnySliceRefUneraseInto(h)
    \/ \E h \in DOMAIN handles : DoAnySliceRefGet(h)
    \/ \E h \in DOMAIN handles : DoAnySliceRefSubslice(h)
    \/ \E h \in DOMAIN handles : DoAnySliceRefSubsliceInto(h)
    \/ \E h \in DOMAIN handles : DoAnySliceRefContains(h)
    \/ DoAnySliceMutErase
    \/ \E h \in DOMAIN handles : DoAnySliceMutUnerase(h)
    \/ \E h \in DOMAIN handles : DoAnySliceMutUneraseMut(h)
    \/ \E h \in DOMAIN handles : DoAnySliceMutUneraseInto(h)
    \/ \E h \in DOMAIN handles : DoAnySliceMutBorrow(h)
    \/ \E h \in DOMAIN handles : DoAnySliceMutBorrowMut(h)
    \/ \E h \in DOMAIN handles : DoAnySliceMutGet(h)
    \/ \E h \in DOMAIN handles : DoAnySliceMutGetMut(h)
    \/ \E h \in DOMAIN handles : DoAnySliceMutSubslice(h)
    \/ \E h \in DOMAIN handles : DoAnySliceMutSubsliceMut(h)
    \/ \E h \in DOMAIN handles : DoAnySliceMutSubsliceInto(h)
    \/ \E h \in DOMAIN handles : DoAnySliceMutContains(h)
    \/ \E h \in DOMAIN handles : DoWrite(h)
    \/ \E h \in DOMAIN handles : DoWriteElem(h)

Spec == Init /\ [][Next]_vars

\* ------------------------------------------------------------- range.rs alone

\* The lengths constrain_range is called with: those of the views above, and
\* the longest view there can be (of a zero-sized type).
LenValues == (0..MaxLen) \cup {UsizeMax}

\* One call constrain_range(len, range), as subslice makes it; res records the
\* arguments and the range returned.
DoConstrainRange ==
    /\ res.op = "init"
    /\ \E len \in LenValues : \E range \in RangeExprs :
        res' = [op |-> "constrain_range", h |-> 0, arg |-> [len |-> len, range |-> range],
                out |-> constrain_range(len, range), new |-> 0]
    /\ UNCHANGED <<T, base, data, overflow_checks, handles>>

NextRange == DoConstrainRange

SpecRange == Init /\ [][NextRange]_vars

\* ------------------------------------------------------------- one sub-view

\* The caller erases one slice of its array, takes one sub-view of it and
\* restores the sub-view.  The sub-view's entry records the range expression
\* next to the local `range` that constrain_range made of it.

\* self.subslice(expr), subslice_mut(expr) or subslice_into(expr) on the one
\* view h there is.
DoSubsliceOf(h) ==
    /\ Len(handles) = 1 /\ Live(h) /\ CanCall
    /\ handles[h].v.kind \in {"AnySliceRef", "AnySliceMut"}
    /\ \E expr \in RangeExprs :
        LET self == handles[h].v
            arg == [expr |-> expr, range |-> constrain_range(self.len, expr)]
        IN  \/ /\ self.kind = "AnySliceRef"
               /\ Call("AnySliceRef::subslice", h, "ref", "ref", arg,
                       AnySliceRef_subslice(self, expr))
            \/ /\ self.kind = "AnySliceRef"
               /\ Call("AnySliceRef::subslice_into", h, "ref", "into", arg,
                       AnySliceRef_subslice_into(self, expr))
            \/ /\ self.kind = "AnySliceMut"
               /\ Call("AnySliceMut::subslice", h, "ref", "ref", arg,
                       AnySliceMut_subslice(self, expr))
            \/ /\ self.kind = "AnySliceMut"
               /\ Call("AnySliceMut::subslice_mut", h, "mut", "mut", arg,
                       AnySliceMut_subslice_mut(self, expr))
            \/ /\ self.kind = "AnySliceMut"
               /\ Call("AnySliceMut::subslice_into", h, "move", "into", arg,
                       AnySliceMut_subslice_into(self, expr))

\* h is the sub-view just taken.
IsSubView(h) == h = Len(handles) /\ handles[h].by \in SubsliceOps

NextSub ==
    \/ handles = << >> /\ DoAnySliceRefErase
    \/ handles = << >> /\ DoAnySliceMutErase
    \/ \E h \in DOMAIN handles : DoSubsliceOf(h)
    \/ \E h \in DOMAIN handles : IsSubView(h) /\ DoAnySliceRefUnerase(h)
    \/ \E h \in DOMAIN handles : IsSubView(h) /\ DoAnySliceRefUneraseInto(h)
    \/ \E h \in DOMAIN handles : IsSubView(h) /\ DoAnySliceMutUnerase(h)
    \/ \E h \in DOMAIN handles : IsSubView(h) /\ DoAnySliceMutUneraseMut(h)
    \/ \E h \in DOMAIN handles : IsSubView(h) /\ DoAnySliceMutUneraseInto(h)

SpecSub == Init /\ [][NextSub]_vars

\* ------------------------------------------------------------- operation names

EraseScalarOps == {"AnyRef::erase", "AnyMut::erase"}

EraseSliceOps == {"AnySliceRef::erase", "AnySliceMut::erase"}

ScalarRestoreOps ==
    {"AnyRef::unerase", "AnyRef::unerase_into",
     "AnyMut::unerase", "AnyMut::unerase_mut", "AnyMut::unerase_into"}

SliceRestoreOps ==
    {"AnySliceRef::unerase", "AnySliceRef::unerase_into",
     "AnySliceMut::unerase", "AnySliceMut::unerase_mut", "AnySliceMut::unerase_into"}

RestoreOps == ScalarRestoreOps \cup SliceRestoreOps

ContainsOps ==
    {"AnyRef::contains", "AnyMut::contains", "AnySliceRef::contains", "AnySliceMut::contains"}

GetOps == {"AnySliceRef::get", "AnySliceMut::get", "AnySliceMut::get_mut"}

\* self.unerase::<U>() for a handle of any of the four shapes.
unerase(self, U) ==
    CASE self.kind = "AnyRef" -> AnyRef_unerase(self, U)
      [] self.kind = "AnyMut" -> AnyMut_unerase(self, U)
      [] self.kind = "AnySliceRef" -> AnySliceRef_unerase(self, U)
      [] self.kind = "AnySliceMut" -> AnySliceMut_unerase(self, U)

\* self.stride() for a view of either shape.
stride(self) ==
    CASE self.kind = "AnySliceRef" -> AnySliceRef_stride(self)
      [] self.kind = "AnySliceMut" -> AnySliceMut_stride(self)

\* self.len() for a view of either shape.
view_len(self) ==
    CASE self.kind = "AnySliceRef" -> AnySliceRef_len(self)
      [] self.kind = "AnySliceMut" -> AnySliceMut_len(self)

\* self.is_empty() for a view of either shape.
view_is_empty(self) ==
    CASE self.kind = "AnySliceRef" -> AnySliceRef_is_empty(self)
      [] self.kind = "AnySliceMut" -> AnySliceMut_is_empty(self)

\* self.subslice(range) for a view of either shape.
subslice(self, range) ==
    CASE self.kind = "AnySliceRef" -> AnySliceRef_subslice(self, range)
      [] self.kind = "AnySliceMut" -> AnySliceMut_subslice(self, range)

\* The kinds of erased handles, and those of them that are views.
HandleKinds == {"AnyRef", "AnyMut", "AnySliceRef", "AnySliceMut"}

ViewKinds == {"AnySliceRef", "AnySliceMut"}

BorrowOps == {"AnyMut::borrow", "AnySliceMut::borrow"}

\* The kinds that grant shared (read-only) access, and those that grant
\* exclusive (write) access.
SharedKinds == {"AnyRef", "AnySliceRef", "&T", "&[T]"}

ExclusiveKinds == {"AnyMut", "AnySliceMut", "&mut T", "&mut [T]"}

\* The type a tag stands for.
TypeOfId(id) == CHOOSE U \in Types : TypeId_of(U) = id

\* The bytes a handle or reference gives access to.
Extent(v) ==
    CASE v.kind \in {"AnyRef", "AnyMut"} ->
             {a \in v.ptr..(v.ptr + size_of(TypeOfId(v.type_id)) - 1) : TRUE}
      [] v.kind \in {"AnySliceRef", "AnySliceMut"} ->
             {a \in v.ptr..(v.ptr + v.len * v.stride - 1) : TRUE}
      [] v.kind \in {"&T", "&mut T"} ->
             {a \in v.ptr..(v.ptr + size_of(v.ty) - 1) : TRUE}
      [] v.kind \in {"&[T]", "&mut [T]"} ->
             {a \in v.ptr..(v.ptr + v.len * size_of(v.ty) - 1) : TRUE}
      [] OTHER -> {}

Overlap(v, w) == Extent(v) \cap Extent(w) # {}

\* The operations that take `&mut self` and return an exclusive handle.
ExclusiveDeriveOps ==
    {"AnySliceMut::borrow_mut", "AnySliceMut::get_mut", "AnySliceMut::subslice_mut"}

\* The operations that take self by value and return a reference or view
\* with the lifetime 'a of the original borrow.
IntoOps ==
    {"AnyRef::unerase_into", "AnyMut::unerase_into", "AnySliceRef::unerase_into",
     "AnySliceMut::unerase_into", "AnySliceRef::subslice_into", "AnySliceMut::subslice_into"}

\* The entry erase returned from which entry h was derived, through any
\* number of calls.
RECURSIVE RootOf(_)
RootOf(h) == IF handles[h].recv = 0 THEN h ELSE RootOf(handles[h].recv)

\* h can be used now without ending a borrow taken from it: it is live and
\* nothing live borrows from it.
Usable(h) == Live(h) /\ ~\E d \in DOMAIN handles : Live(d) /\ DescOf(d, h)

\* ------------------------------------------------------------- from_raw_parts

\* The parts an unsafe caller may pass to from_raw_parts: addresses in and
\* out of the array, lengths and strides that fit the array and that do not,
\* the tag of any type.
RawParts ==
    [kind : HandleKinds,
     ptr : {0, base, base + 1},
     len : {0, Len(data), Len(data) + 1},
     stride : {size_of(T), size_of(T) + 1},
     type_id : {TypeId_of(U) : U \in Types}]

\* The safety conditions of from_raw_parts, for a handle into the array: the
\* tag is that of the element type, the stride its size, and the address
\* and length lie within the array.
Valid(v) ==
    /\ v.type_id = TypeId_of(T)
    /\ v.kind \in {"AnyRef", "AnyMut"} => \E i \in 1..Len(data) : v.ptr = ElemAddr(i)
    /\ v.kind \in ViewKinds =>
           /\ v.stride = size_of(T)
           /\ \E k \in 0..Len(data) :
                  /\ v.ptr = base + k * size_of(T)
                  /\ k + v.len <= Len(data)

\* One call of from_raw_parts of any of the four handle types, as the first
\* call the caller makes.  What it returns is examined as made: operations
\* on a handle that breaks the safety conditions are undefined behaviour.
DoFromRawParts ==
    /\ handles = << >>
    /\ CanCall
    /\ \E p \in RawParts :
        LET v == CASE p.kind = "AnyRef" -> AnyRef_from_raw_parts(p.ptr, p.type_id)
                   [] p.kind = "AnyMut" -> AnyMut_from_raw_parts(p.ptr, p.type_id)
                   [] p.kind = "AnySliceRef" ->
                          AnySliceRef_from_raw_parts(p.ptr, p.len, p.stride, p.type_id)
                   [] p.kind = "AnySliceMut" ->
                          AnySliceMut_from_raw_parts(p.ptr, p.len, p.stride, p.type_id)
        IN  /\ handles' = <<Entry(v, "from_raw_parts", 0, p, 0,
                                  p.kind \in {"AnyMut", "AnySliceMut"}, NoRef)>>
            /\ res' = [op |-> "from_raw_parts", h |-> 0, arg |-> p, out |-> Ret(v), new |-> 1]
    /\ UNCHANGED <<T, base, data, overflow_checks>>

NextRaw ==
    \/ DoFromRawParts
    \/ res.op # "from_raw_parts" /\ Next

SpecRaw == Init /\ [][NextRaw]_vars

\* ------------------------------------------------ any_ptr.rs, any_slice_ptr.rs

\* A faulty conversion: the tag stored is that of the handle's own type, not
\* the tag the handle carries.
AnyPtr_from_tag_of_handle(reference) ==
    [kind |-> "AnyPtr", ptr |-> reference.ptr, type_id |-> TypeId_of("unit") - 1]

\* impl From<AnyRef> for AnyPtr, impl From<AnyMut> for AnyPtr
AnyPtr_from(reference) ==
    [kind |-> "AnyPtr", ptr |-> reference.ptr, type_id |-> reference.type_id]

AnyPtr_deref(self) == [kind |-> "AnyRef", ptr |-> self.ptr, type_id |-> self.type_id]

AnyPtr_deref_mut(self) == [kind |-> "AnyMut", ptr |-> self.ptr, type_id |-> self.type_id]

AnyPtr_type_id(self) == self.type_id

\* impl From<AnySliceRef> for AnySlicePtr, impl From<AnySliceMut> for
\* AnySlicePtr.  The pointer is written for a view { ptr, start, len,
\* type_id }: it reads `slice.start`, and no stride.  The views of
\* any_slice_ref.rs and any_slice_mut.rs hold the address of their first
\* element, which is start 0.
AnySlicePtr_from(slice) ==
    [kind |-> "AnySlicePtr", ptr |-> slice.ptr, start |-> 0, len |-> slice.len,
     type_id |-> slice.type_id]

AnySlicePtr_deref(self) ==
    [kind |-> "AnySliceRef", ptr |-> self.ptr, start |-> self.start, len |-> self.len,
     type_id |-> self.type_id]

AnySlicePtr_deref_mut(self) ==
    [kind |-> "AnySliceMut", ptr |-> self.ptr, start |-> self.start, len |-> self.len,
     type_id |-> self.type_id]

AnySlicePtr_len(self) == self.len

AnySlicePtr_is_empty(self) == self.len = 0

CanCallPtr == Len(handles) < MaxPtrCalls

\* AnyPtr::from(handle), AnySlicePtr::from(view): the handle is passed by
\* value, a copy of it when it is shared.
DoPtrFrom(h) ==
    /\ Live(h) /\ CanCallPtr
    /\ handles[h].by \in EraseScalarOps \cup EraseSliceOps
    /\ LET self == handles[h].v
           access == IF self.kind \in ExclusiveKinds THEN "move" ELSE "ref"
       IN  \/ /\ self.kind \in {"AnyRef", "AnyMut"}
              /\ Call("AnyPtr::from", h, access, "into", 0, Ret(AnyPtr_from(self)))
           \/ /\ self.kind \in ViewKinds
              /\ Call("AnySlicePtr::from", h, access, "into", 0, Ret(AnySlicePtr_from(self)))

\* A copy of a pointer (both derive Clone and Copy).
DoPtrCopy(h) ==
    /\ Live(h) /\ CanCallPtr
    /\ handles[h].v.kind \in {"AnyPtr", "AnySlicePtr"}
    /\ Call("clone", h, "ref", "into", 0, Ret(handles[h].v))

DoPtrDeref(h) ==
    /\ Live(h) /\ CanCallPtr
    /\ \/ /\ handles[h].v.kind = "AnyPtr"
          /\ Call("AnyPtr::deref", h, "ref", "into", 0, Ret(AnyPtr_deref(handles[h].v)))
       \/ /\ handles[h].v.kind = "AnySlicePtr"
          /\ Call("AnySlicePtr::deref", h, "ref", "into", 0,
                  Ret(AnySlicePtr_deref(handles[h].v)))

DoPtrDerefMut(h) ==
    /\ Live(h) /\ CanCallPtr
    /\ \/ /\ handles[h].v.kind = "AnyPtr"
          /\ Call("AnyPtr::deref_mut", h, "ref", "into", 0,
                  Ret(AnyPtr_deref_mut(handles[h].v)))
       \/ /\ handles[h].v.kind = "AnySlicePtr"
          /\ Call("AnySlicePtr::deref_mut", h, "ref", "into", 0,
                  Ret(AnySlicePtr_deref_mut(handles[h].v)))

\* The handle that was converted into pointer p, or into the pointer p is a
\* copy of.
RECURSIVE Converted(_)
Converted(p) == IF handles[p].by = "clone" THEN Converted(handles[p].recv) ELSE handles[p].recv

NextPtr ==
    \/ handles = << >> /\ DoAnyRefErase
    \/ handles = << >> /\ DoAnyMutErase
    \/ handles = << >> /\ DoAnySliceRefErase
    \/ handles = << >> /\ DoAnySliceMutErase
    \/ \E h \in DOMAIN handles : DoPtrFrom(h)
    \/ \E h \in DOMAIN handles : DoPtrCopy(h)
    \/ \E h \in DOMAIN handles : DoPtrDeref(h)
    \/ \E h \in DOMAIN handles : DoPtrDerefMut(h)

SpecPtr == Init /\ [][NextPtr]_vars

\* `&s[i] as *const T` (i 0-based) for the caller's typed slice s.
AddrOfIndex(s, i) == s.ptr + i * size_of(s.ty)

\* ------------------------------------------------------------- properties

\* C1: for each of the four handle shapes and each restore variant (unerase,
\* unerase_mut, unerase_into), restoring to a type U whose tag differs from
\* the tag recorded at erase time (the tag of T) returns None; Some is
\* returned only when the requested tag equals the recorded tag.
C1_RestoreOtherTypeIsNone ==
    res.op \in RestoreOps =>
        LET recorded == handles[res.h].v.type_id
        IN  /\ recorded = TypeId_of(T)
            /\ TypeId_of(res.arg) # recorded => res.out = None
            /\ res.out.some => TypeId_of(res.arg) = recorded

\* C1 happens: a view of i32 is asked for the other four-byte type.
C1_Witness ==
    /\ res.op = "AnySliceMut::unerase_into"
    /\ T = "i32"
    /\ res.arg = "u8_u16"
    /\ res.out = None

\* C2: scalar round trip.  Restoring what AnyRef::erase(&v) or
\* AnyMut::erase(&mut v) returned to v's own type T, by unerase, unerase_mut
\* or unerase_into, returns Some reference whose address is the address of v
\* and whose referent equals v.
C2_ScalarRoundTrip ==
    (/\ res.op \in ScalarRestoreOps
     /\ handles[res.h].by \in EraseScalarOps
     /\ res.arg = T)
    => LET v == handles[res.h].from
       IN  /\ res.out.some
           /\ res.out.val.ptr = v.ptr
           /\ Deref(res.out.val) = Deref(v)

\* C2 happens: the second element of an array of the padded type, erased
\* exclusively and restored.
C2_Witness ==
    /\ res.op = "AnyMut::unerase_mut"
    /\ handles[res.h].by = "AnyMut::erase"
    /\ T = "u8_u16"
    /\ res.arg = T
    /\ handles[res.h].from.ptr = ElemAddr(2)
    /\ res.out.some

\* C3: view round trip.  Restoring what AnySliceRef::erase(s) or
\* AnySliceMut::erase(s) returned for a slice s of N >= 0 elements of T to
\* T, by unerase, unerase_mut or unerase_into, returns a slice of exactly N
\* elements that starts at the address of s and equals s element by
\* element, in order.
C3_ViewRoundTrip ==
    (/\ res.op \in SliceRestoreOps
     /\ handles[res.h].by \in EraseSliceOps
     /\ res.arg = T)
    => LET s == handles[res.h].from
       IN  /\ res.out.some
           /\ res.out.val.len = s.len
           /\ res.out.val.ptr = s.ptr
           /\ \A j \in 0..(s.len - 1) : Index(res.out.val, j) = Index(s, j)

\* C3 happens: a slice of two i32 is erased and restored.
C3_Witness ==
    /\ res.op = "AnySliceMut::unerase_mut"
    /\ handles[res.h].by = "AnySliceMut::erase"
    /\ T = "i32"
    /\ res.arg = T
    /\ handles[res.h].from.len = 2
    /\ res.out.some

\* C4: contains::<X>() on a handle erased from T returns true when X = T
\* and false for every other X, for each of the four shapes, and it agrees
\* with whether unerase::<X>() on the same handle returns Some.
C4_ContainsIffSameType ==
    res.op \in ContainsOps =>
        /\ res.out.val = (res.arg = T)
        /\ res.out.val = unerase(handles[res.h].v, res.arg).some

\* C4 happens: a handle to the padded type is asked whether it holds an i32.
C4_Witness ==
    /\ res.op = "AnyRef::contains"
    /\ T = "u8_u16"
    /\ res.arg = "i32"
    /\ res.out.val = FALSE

\* C5: mutation visibility.  After AnyMut::erase or AnySliceMut::erase of an
\* exclusive reference, a restore by unerase_mut or unerase_into and a write
\* through the restored reference, reading the caller's own reference
\* observes the written value: erase does not copy.
C5_MutationVisible ==
    /\ (/\ res.op = "write"
        /\ handles[res.h].by \in {"AnyMut::unerase_mut", "AnyMut::unerase_into"}
        /\ handles[handles[res.h].recv].by = "AnyMut::erase")
       => Deref(handles[handles[res.h].recv].from) = res.out.val
    /\ (/\ res.op = "write_elem"
        /\ handles[res.h].by \in {"AnySliceMut::unerase_mut", "AnySliceMut::unerase_into"}
        /\ handles[handles[res.h].recv].by = "AnySliceMut::erase")
       => Index(handles[handles[res.h].recv].from, res.arg) = res.out.val

\* C5 happens: the second of two i32 is overwritten through a slice restored
\* by unerase_into.
C5_Witness ==
    /\ res.op = "write_elem"
    /\ res.arg = 1
    /\ T = "i32"
    /\ handles[res.h].by = "AnySliceMut::unerase_into"
    /\ handles[handles[res.h].recv].by = "AnySliceMut::erase"
    /\ data[2] = FillValue(T)
C7_NeverFaults ==
    res.op \in SubsliceOps \cup {"constrain_range"} => ~res.out.panic

\* C8: get(index) and get_mut(index) on a view return Some exactly when
\* index < len() and None for every index >= len(); the scalar handle in
\* Some carries the view's type tag and the address ptr + index * stride.
C8_GetIffInBounds ==
    res.op \in GetOps =>
        LET self == handles[res.h].v
            index == res.arg
        IN  /\ ~res.out.panic
            /\ res.out.some <=> index < self.len
            /\ index >= self.len => res.out = None
            /\ res.out.some =>
                   /\ res.out.val.type_id = self.type_id
                   /\ res.out.val.ptr = self.ptr + index * self.stride

\* C8 happens: get_mut(1) on a view of i32 returns Some.
C8_Witness ==
    /\ res.op = "AnySliceMut::get_mut"
    /\ T = "i32"
    /\ res.arg = 1
    /\ res.out.some

\* C9: stride fidelity.  For a view erased from a slice of N elements of T,
\* stride() equals size_of(T) (padding included, 0 for a zero-sized T); and
\* for every i in 0..N, get(i) (get_mut(i)) returns a handle with the
\* address of &original[i], which unerase::<T> restores to original[i].
C9_StrideFidelity ==
    /\ \A h \in DOMAIN handles :
           handles[h].by \in EraseSliceOps => stride(handles[h].v) = size_of(T)
    /\ (/\ res.op \in GetOps
        /\ handles[res.h].by \in EraseSliceOps
        /\ res.arg < handles[res.h].from.len)
       => /\ res.out.some
          /\ res.out.val.ptr = AddrOfIndex(handles[res.h].from, res.arg)
    /\ (/\ res.op \in {"AnyRef::unerase", "AnyMut::unerase"}
        /\ res.arg = T
        /\ handles[res.h].by \in GetOps
        /\ handles[handles[res.h].recv].by \in EraseSliceOps)
       => /\ res.out.some
          /\ Deref(res.out.val)
               = Index(handles[handles[res.h].recv].from, handles[res.h].arg)

\* C9 happens: the second element of a view of the padded type is taken
\* with get(1) and restored.
C9_Witness ==
    /\ res.op = "AnyRef::unerase"
    /\ T = "u8_u16"
    /\ res.arg = T
    /\ handles[res.h].by = "AnySliceRef::get"
    /\ handles[res.h].arg = 1
    /\ handles[handles[res.h].recv].by = "AnySliceRef::erase"
    /\ res.out.some

C11_SubViewContents ==
    (/\ res.op \in SliceRestoreOps
     /\ res.arg = T
     /\ handles[res.h].by \in SubsliceOps
     /\ handles[handles[res.h].recv].by \in EraseSliceOps)
    => LET original == handles[handles[res.h].recv].from
           expr == handles[res.h].arg.expr
           a == CASE expr.start.b = "Included" -> expr.start.v
                  [] expr.start.b = "Excluded" -> expr.start.v + 1
                  [] expr.start.b = "Unbounded" -> 0
           b == CASE expr.end.b = "Included" -> expr.end.v + 1
                  [] expr.end.b = "Excluded" -> expr.end.v
                  [] expr.end.b = "Unbounded" -> original.len
       IN  (a <= b /\ b <= original.len)
           => /\ res.out.some
              /\ res.out.val.len = b - a
              /\ res.out.val.ptr = AddrOfIndex(original, a)
              /\ \A j \in 0..(b - a - 1) : Index(res.out.val, j) = Index(original, a + j)

\* C11 happens: subslice_into(1..=1) of a view of two padded elements,
\* restored, is the second element alone.
C11_Witness ==
    /\ res.op = "AnySliceRef::unerase"
    /\ T = "u8_u16"
    /\ res.arg = T
    /\ handles[res.h].by = "AnySliceRef::subslice_into"
    /\ handles[res.h].arg.expr = [start |-> Included(1), end |-> Included(1)]
    /\ handles[handles[res.h].recv].from.len = 2
    /\ res.out.some
    /\ res.out.val.len = 1
\* C12 as stated: a sub-view taken with a range whose start is at or beyond
\* len() is an empty view (len() = 0, is_empty() true) and the call does not
\* fault; a range that starts inside the view and ends beyond len() is
\* truncated to end at len().
C12_StartBeyondLenIsEmpty ==
    (res.op \in SubsliceOps /\ handles[res.h].by \in EraseSliceOps) =>
        LET L == view_len(handles[res.h].v)
            expr == res.arg.expr
            lo == CASE expr.start.b = "Included" -> expr.start.v
                    [] expr.start.b = "Excluded" -> expr.start.v + 1
                    [] expr.start.b = "Unbounded" -> 0
            hi == CASE expr.end.b = "Included" -> expr.end.v + 1
                    [] expr.end.b = "Excluded" -> expr.end.v
                    [] expr.end.b = "Unbounded" -> L
        IN  /\ lo >= L =>
                   /\ ~res.out.panic
                   /\ view_len(res.out.val) = 0
                   /\ view_is_empty(res.out.val)
            /\ (lo < L /\ hi > L) =>
                   /\ ~res.out.panic
                   /\ view_len(res.out.val) = L - lo
\* C13 as stated: for any range whose resolved start is greater than its
\* resolved end after each endpoint is clamped to the length on its own (4..2
\* on a 5-element view), constrain_range yields an empty range and subslice
\* yields a view with len() = 0, without error.
C13_InvertedRangeIsEmpty ==
    (res.op \in SubsliceOps /\ handles[res.h].by \in EraseSliceOps) =>
        LET L == view_len(handles[res.h].v)
            expr == res.arg.expr
            lo == CASE expr.start.b = "Included" -> expr.start.v
                    [] expr.start.b = "Excluded" -> expr.start.v + 1
                    [] expr.start.b = "Unbounded" -> 0
            hi == CASE expr.end.b = "Included" -> expr.end.v + 1
                    [] expr.end.b = "Excluded" -> expr.end.v
                    [] expr.end.b = "Unbounded" -> L
        IN  (Min(lo, L) > Min(hi, L)) =>
                /\ ~res.out.panic
                /\ ~res.arg.range.panic
                /\ ~(res.arg.range.start < res.arg.range.end)
                /\ view_len(res.out.val) = 0
\* C14: sub-view composition.  For a view v and ranges r1, r2 for which the
\* calls return, v.subslice(r1).subslice(r2) (in any of the subslice
\* variants) has the same address, length, stride and tag as v.subslice(r)
\* for the single range r that offsets the clamped r2 by the clamped start
\* of r1.
C14_SubsliceComposes ==
    (/\ res.op \in SubsliceOps
     /\ ~res.out.panic
     /\ handles[res.h].by \in SubsliceOps)
    => LET v == handles[handles[res.h].recv].v
           r1 == handles[res.h].arg
           r2 == res.arg
           r == [start |-> Included(r1.start + r2.start),
                 end |-> Excluded(r1.start + r2.end)]
           single == subslice(v, r)
       IN  /\ ~single.panic
           /\ res.out.val.ptr = single.val.ptr
           /\ res.out.val.len = single.val.len
           /\ res.out.val.stride = single.val.stride
           /\ res.out.val.type_id = single.val.type_id

\* C14 happens: subslice_mut(1..2) of a view of two i32, then
\* subslice_mut(0..1) of that, is the second element.
C14_Witness ==
    /\ res.op = "AnySliceMut::subslice_mut"
    /\ ~res.out.panic
    /\ T = "i32"
    /\ handles[res.h].by = "AnySliceMut::subslice_mut"
    /\ handles[res.h].arg.start = 1 /\ handles[res.h].arg.end = 2
    /\ res.arg.start = 0 /\ res.arg.end = 1
    /\ res.out.val.ptr = ElemAddr(2)
    /\ res.out.val.len = 1
\* C15: stride and type tag are immutable.  After every step, every handle
\* there is (erased from an array of T, or derived by borrow, borrow_mut,
\* subslice, subslice_mut, subslice_into, get, get_mut) has the tag of T and,
\* if it is a view, the stride size_of(T); a derived handle has the tag (and
\* a derived view the stride) of the handle it was derived from; and the
\* step changed no field of a handle that existed before it.
C15_StrideAndTagImmutable ==
    [][\A h \in DOMAIN handles' :
          /\ handles'[h].v.kind \in HandleKinds =>
                 /\ handles'[h].v.type_id = TypeId_of(T)
                 /\ handles'[h].recv # 0 =>
                        handles'[h].v.type_id = handles'[handles'[h].recv].v.type_id
          /\ handles'[h].v.kind \in ViewKinds =>
                 /\ stride(handles'[h].v) = size_of(T)
                 /\ handles'[h].recv # 0 =>
                        stride(handles'[h].v) = stride(handles'[handles'[h].recv].v)
          /\ h \in DOMAIN handles => handles'[h].v = handles[h].v]_vars

\* C15 happens: a handle three derivations away from erase (borrow_mut, then
\* get_mut) of an array of the padded type.
C15_Witness ==
    /\ res.op = "AnySliceMut::get_mut"
    /\ T = "u8_u16"
    /\ handles[res.h].by = "AnySliceMut::borrow_mut"
    /\ res.out.some
    /\ res.out.val.type_id = TypeId_of(T)
\* C16: downgrade.  Every handle that borrow() returned on an exclusive
\* handle (AnyMut, AnySliceMut), however many times borrow() was called, is a
\* shared handle with the address and tag (for views also the length and
\* stride) of the exclusive handle; it restores to T as the exclusive handle
\* does, and a restore of it that was made returned exactly that; and
\* whatever is derived from a shared handle is shared: no operation on it
\* returns a handle or reference that can write.
C16_BorrowDowngrades ==
    /\ \A h \in DOMAIN handles :
           handles[h].by \in BorrowOps =>
               LET shared == handles[h].v
                   exclusive == handles[handles[h].recv].v
               IN  /\ shared.kind \in SharedKinds
                   /\ shared.ptr = exclusive.ptr
                   /\ shared.type_id = exclusive.type_id
                   /\ shared.kind = "AnySliceRef" =>
                          /\ shared.len = exclusive.len
                          /\ shared.stride = exclusive.stride
                   /\ unerase(shared, T).some
                   /\ unerase(shared, T) = unerase(exclusive, T)
    /\ (/\ res.op \in RestoreOps
        /\ res.arg = T
        /\ handles[res.h].by \in BorrowOps)
       => res.out = unerase(handles[handles[res.h].recv].v, T)
    /\ \A h \in DOMAIN handles :
           (/\ handles[h].recv # 0
            /\ handles[h].v.kind # "value"
            /\ handles[handles[h].recv].v.kind \in SharedKinds)
           => handles[h].v.kind \in SharedKinds

\* C16 happens: two live shared views borrowed from the same exclusive view
\* of two i32.
C16_Witness ==
    /\ res.op = "AnySliceMut::borrow"
    /\ T = "i32"
    /\ \E h1, h2 \in DOMAIN handles :
           /\ h1 # h2
           /\ handles[h1].by = "AnySliceMut::borrow" /\ handles[h2].by = "AnySliceMut::borrow"
           /\ handles[h1].recv = handles[h2].recv
           /\ handles[h1].st = "live" /\ handles[h2].st = "live"
           /\ handles[h1].v.len = 2

\* C17: no two usable handles or references both grant exclusive access to
\* overlapping memory; and while a handle derived by borrow_mut, get_mut or
\* subslice_mut is live its parent is not usable: a step that uses the parent
\* leaves the derived handle dead.
C17_NoTwoExclusive ==
    [][/\ \A h1, h2 \in DOMAIN handles' :
              (/\ h1 # h2
               /\ Usable(h1)' /\ Usable(h2)'
               /\ handles'[h1].v.kind \in ExclusiveKinds
               /\ handles'[h2].v.kind \in ExclusiveKinds)
              => ~Overlap(handles'[h1].v, handles'[h2].v)
       /\ \A d \in DOMAIN handles' :
              (/\ handles'[d].by \in ExclusiveDeriveOps
               /\ handles'[d].st = "live")
              => \A p \in DOMAIN handles' : p = handles'[d].recv => ~Usable(p)'
       /\ \A d \in DOMAIN handles :
              (/\ handles[d].by \in ExclusiveDeriveOps
               /\ handles[d].st = "live"
               /\ res'.h = handles[d].recv)
              => handles'[d].st = "dead"]_vars

\* C17 happens: get_mut was called a second time on the same exclusive view
\* for the same element; the handle the first call returned is dead, the new
\* one is usable and gives access to bytes of the array.
C17_Witness ==
    /\ res.op = "AnySliceMut::get_mut"
    /\ res.out.some
    /\ Usable(res.new)
    /\ Extent(handles[res.new].v) # {}
    /\ \E d \in DOMAIN handles :
           /\ d # res.new
           /\ handles[d].by = "AnySliceMut::get_mut"
           /\ handles[d].recv = res.h
           /\ handles[d].arg = res.arg
           /\ handles[d].st = "dead"

\* C18: several shared handles can be live over the same memory at once, but
\* a live shared handle or shared reference never overlaps a handle or
\* reference that can be used for writing (an exclusive one that is live and
\* that nothing live borrows from).
C18_SharedXorExclusive ==
    \A s, x \in DOMAIN handles :
        (/\ Live(s)
         /\ handles[s].v.kind \in SharedKinds
         /\ Usable(x)
         /\ handles[x].v.kind \in ExclusiveKinds)
        => ~Overlap(handles[s].v, handles[x].v)

\* C18 happens: two shared handles to the same i32, taken with get from one
\* exclusive view, are live together; the exclusive view still exists but
\* cannot be used for writing while they are live.
C18_Witness ==
    /\ res.op = "AnySliceMut::get"
    /\ res.out.some
    /\ T = "i32"
    /\ \E s1, s2 \in DOMAIN handles :
           /\ s1 < s2
           /\ handles[s1].by = "AnySliceMut::get" /\ handles[s2].by = "AnySliceMut::get"
           /\ handles[s1].recv = res.h /\ handles[s2].recv = res.h
           /\ Live(s1) /\ Live(s2)
           /\ Overlap(handles[s1].v, handles[s2].v)
           /\ Overlap(handles[s1].v, handles[res.h].v)
           /\ Live(res.h) /\ ~Usable(res.h)

C20_IntoOutlivesHandle ==
    [][/\ \A e \in DOMAIN handles :
              (/\ handles[e].by \in IntoOps
               /\ handles[e].st = "live"
               /\ handles'[e].st = "dead")
              => /\ res'.h # handles[e].recv
                 /\ res'.h = 0 \/ DescOf(e, res'.h)
       /\ \A e \in DOMAIN handles' :
              (/\ handles'[e].by \in IntoOps
               /\ handles'[handles'[e].recv].v.kind \in ExclusiveKinds)
              => handles'[handles'[e].recv].st = "consumed"
       /\ \A d \in DOMAIN handles' :
              (/\ handles'[d].recv # 0
               /\ handles'[d].by \notin IntoOps
               /\ handles'[d].st = "live")
              => handles'[handles'[d].recv].st = "live"]_vars

\* C20 happens: a write through the `&mut T` that unerase_into returned,
\* made when the handle it came from was gone.
C20_Witness ==
    /\ res.op = "write"
    /\ handles[res.h].by = "AnyMut::unerase_into"
    /\ handles[res.h].st = "live"
    /\ handles[handles[res.h].recv].st = "consumed"
    /\ Deref(handles[res.h].v) = FillValue(T)
    /\ T = "i32"

\* C21 as stated: constrain_range(L, r) returns start..end with
\* start = min(L, s), s being 0 for an unbounded start, a for an included
\* start a and a + 1 for an excluded start a, and end = min(L, e), e being L
\* for an unbounded end, b for an excluded end b and b + 1 for an included
\* end b (sums of integers, each endpoint clamped to L on its own).
C21_EqualsReference ==
    res.op = "constrain_range" =>
        LET len == res.arg.len
            r == res.arg.range
            s == CASE r.start.b = "Unbounded" -> 0
                   [] r.start.b = "Included" -> r.start.v
                   [] r.start.b = "Excluded" -> r.start.v + 1
            e == CASE r.end.b = "Unbounded" -> len
                   [] r.end.b = "Excluded" -> r.end.v
                   [] r.end.b = "Included" -> r.end.v + 1
        IN  /\ ~res.out.panic
            /\ res.out.start = Min(s, len)
            /\ res.out.end = Min(e, len)

\* C22: every view derived, through any sequence of subslice, subslice_mut,
\* subslice_into, borrow and borrow_mut, from a view erased from N elements
\* at address b with stride s has stride s, an address b + k*s and a length n
\* with k + n <= N; and every handle returned by get or get_mut on such a
\* view has the address of one of the N elements.
C22_DerivedViewsInBounds ==
    \A d \in DOMAIN handles :
        (handles[d].v.kind \in HandleKinds /\ handles[RootOf(d)].by \in EraseSliceOps) =>
            LET slice == handles[RootOf(d)].from
                v == handles[d].v
            IN  /\ v.kind \in ViewKinds =>
                       /\ v.stride = size_of(slice.ty)
                       /\ \E k \in 0..slice.len :
                              /\ v.ptr = slice.ptr + k * size_of(slice.ty)
                              /\ k + v.len <= slice.len
                /\ handles[d].by \in GetOps =>
                       \E i \in 0..(slice.len - 1) :
                           v.ptr = slice.ptr + i * size_of(slice.ty)

\* C22 happens: get returned the last element of a sub-view that starts
\* past the first element of the i32 slice that was erased.
C22_Witness ==
    /\ res.op \in GetOps
    /\ res.out.some
    /\ T = "i32"
    /\ handles[res.h].by \in SubsliceOps
    /\ handles[res.h].v.ptr > handles[RootOf(res.h)].from.ptr
    /\ res.arg = handles[res.h].v.len - 1
    /\ handles[res.new].v.ptr =
           handles[RootOf(res.h)].from.ptr + (handles[RootOf(res.h)].from.len - 1) * 4

\* C23: for a view v and a range a..b with a <= b <= v.len(),
\* v.subslice(a..b).get(i) returns Some exactly when i < b - a, and then a
\* handle with the address and tag of v.get(a + i), which restores to
\* element a + i of what v restores to.
C23_SubViewIndexing ==
    (/\ res.op \in GetOps
     /\ handles[res.h].by \in SubsliceOps
     /\ handles[res.h].arg.start <= handles[res.h].arg.end) =>
        LET v == handles[handles[res.h].recv].v
            a == handles[res.h].arg.start
            b == handles[res.h].arg.end
            i == res.arg
            sub == subslice(v, [start |-> Included(a), end |-> Excluded(b)])
            direct == IF v.kind = "AnySliceRef" THEN AnySliceRef_get(v, a + i)
                      ELSE AnySliceMut_get(v, a + i)
        IN  /\ b <= v.len
            /\ ~sub.panic
            /\ handles[res.h].v.ptr = sub.val.ptr
            /\ handles[res.h].v.len = sub.val.len
            /\ ~res.out.panic
            /\ res.out.some <=> i < b - a
            /\ res.out.some =>
                   /\ direct.some
                   /\ res.out.val.ptr = direct.val.ptr
                   /\ res.out.val.type_id = direct.val.type_id
                   /\ unerase(res.out.val, T).some
                   /\ Deref(unerase(res.out.val, T).val) = Index(unerase(v, T).val, a + i)

\* C23 happens: subslice(1..2).get(0) on a view of two i32 returned a handle
\* that restores to the second element.
C23_Witness ==
    /\ res.op = "AnySliceRef::get"
    /\ res.arg = 0
    /\ res.out.some
    /\ T = "i32"
    /\ handles[res.h].by = "AnySliceRef::subslice"
    /\ handles[res.h].arg.start = 1
    /\ handles[res.h].arg.end = 2
    /\ handles[handles[res.h].recv].v.len = 2
    /\ Deref(unerase(res.out.val, T).val) = InitElem(T, 2)

\* C24: a write through the slice restored from subslice_mut(range) of an
\* exclusive view changes the element written, and changes no element of the
\* data other than those of the view whose indices lie in the clamped range.
C24_SubsliceMutWriteFrame ==
    [][(/\ res'.op = "write_elem"
        /\ handles[res'.h].by \in {"AnySliceMut::unerase_mut", "AnySliceMut::unerase_into"}
        /\ handles[handles[res'.h].recv].by = "AnySliceMut::subslice_mut") =>
           LET sub == handles[handles[res'.h].recv]
               v == handles[sub.recv].v
               range == sub.arg
           IN  /\ \A j \in DOMAIN data :
                      data'[j] # data[j] =>
                          \E k \in 0..(v.len - 1) :
                              /\ range.start <= k /\ k < range.end
                              /\ ElemAddr(j) = v.ptr + k * v.stride
               /\ Len(data') = Len(data)
               /\ \A j \in DOMAIN data :
                      ElemAddr(j) = v.ptr + (range.start + res'.arg) * v.stride
                      => data'[j] = FillValue(T)]_vars

\* C24 happens: of two (u8, u16), the second was written through the slice
\* restored from subslice_mut(1..) and the first is as it was.
C24_Witness ==
    /\ res.op = "write_elem"
    /\ T = "u8_u16"
    /\ handles[res.h].by = "AnySliceMut::unerase_mut"
    /\ handles[handles[res.h].recv].by = "AnySliceMut::subslice_mut"
    /\ handles[handles[res.h].recv].arg.start = 1
    /\ handles[handles[res.h].recv].arg.end = 2
    /\ handles[handles[handles[res.h].recv].recv].v.len = 2
    /\ data = <<InitElem(T, 1), FillValue(T)>>

\* C25: a write through the reference restored from get_mut(i), i < len, of
\* an exclusive view changes element i of the view to the value written and
\* leaves every other element of the data unchanged.
C25_GetMutWriteFrame ==
    [][(/\ res'.op = "write"
        /\ handles[res'.h].by \in {"AnyMut::unerase_mut", "AnyMut::unerase_into"}
        /\ handles[handles[res'.h].recv].by = "AnySliceMut::get_mut") =>
           LET element == handles[handles[res'.h].recv]
               v == handles[element.recv].v
               i == element.arg
           IN  /\ i < v.len
               /\ Len(data') = Len(data)
               /\ \A j \in DOMAIN data :
                      IF ElemAddr(j) = v.ptr + i * v.stride
                      THEN data'[j] = FillValue(T)
                      ELSE data'[j] = data[j]]_vars

\* C25 happens: of two i32, the second was written through the reference
\* restored from get_mut(1) and the first is as it was.
C25_Witness ==
    /\ res.op = "write"
    /\ T = "i32"
    /\ handles[res.h].by = "AnyMut::unerase_into"
    /\ handles[handles[res.h].recv].by = "AnySliceMut::get_mut"
    /\ handles[handles[res.h].recv].arg = 1
    /\ handles[handles[handles[res.h].recv].recv].v.len = 2
    /\ data = <<InitElem(T, 1), FillValue(T)>>

C27_OnlyRawPartsBreaks ==
    /\ \A h \in DOMAIN handles :
           (handles[h].v.kind \in HandleKinds /\ handles[h].by # "from_raw_parts")
           => Valid(handles[h].v)
    /\ \A h \in DOMAIN handles :
           handles[h].by = "from_raw_parts" =>
               LET v == handles[h].v
                   p == handles[h].arg
               IN  /\ v.kind = p.kind
                   /\ v.ptr = p.ptr
                   /\ v.type_id = p.type_id
                   /\ v.kind \in ViewKinds => v.len = p.len /\ v.stride = p.stride
                   /\ DOMAIN v = IF v.kind \in ViewKinds
                                 THEN {"kind", "ptr", "len", "stride", "type_id"}
                                 ELSE {"kind", "ptr", "type_id"}
    /\ res.op = "from_raw_parts" => ~res.out.panic /\ res.out.val = handles[res.new].v

\* C27 happens: from_raw_parts returned an exclusive view whose tag is not
\* that of the data, whose stride is not the element size and whose length
\* runs past the array.
C27_Witness ==
    /\ res.op = "from_raw_parts"
    /\ handles[1].v.kind = "AnySliceMut"
    /\ handles[1].v.type_id # TypeId_of(T)
    /\ handles[1].v.stride # size_of(T)
    /\ handles[1].v.len > Len(data)
    /\ handles[1].v.ptr = 0
    /\ ~Valid(handles[1].v)

\* C28: an AnyPtr made from an AnyRef or AnyMut, copied any number of times
\* and then dereferenced with deref or deref_mut, gives a scalar handle with
\* the address and the type tag of the handle converted, so that
\* unerase::<U> on it succeeds exactly for the type erased and returns what
\* the handle converted returned; AnyPtr::type_id() is that tag.
C28_PtrRoundTrip ==
    /\ \A d \in DOMAIN handles :
           handles[d].by \in {"AnyPtr::deref", "AnyPtr::deref_mut"} =>
               LET back == handles[d].v
                   original == handles[Converted(handles[d].recv)].v
               IN  /\ back.kind = IF handles[d].by = "AnyPtr::deref" THEN "AnyRef" ELSE "AnyMut"
                   /\ back.ptr = original.ptr
                   /\ back.type_id = original.type_id
                   /\ \A U \in Types : unerase(back, U).some <=> U = T
                   /\ unerase(back, T) = unerase(original, T)
    /\ \A p \in DOMAIN handles :
           handles[p].v.kind = "AnyPtr" =>
               AnyPtr_type_id(handles[p].v) = handles[Converted(p)].v.type_id

\* C28 happens: an AnyMut to the second of two i32 was converted into an
\* AnyPtr, the pointer copied, and the copy dereferenced with deref_mut.
C28_Witness ==
    /\ res.op = "AnyPtr::deref_mut"
    /\ T = "i32"
    /\ handles[res.h].by = "clone"
    /\ handles[Converted(res.h)].v.kind = "AnyMut"
    /\ handles[Converted(res.h)].v.ptr = ElemAddr(2)
    /\ Deref(unerase(handles[res.new].v, T).val) = InitElem(T, 2)

\* C29 as stated: an AnySlicePtr made from an AnySliceRef or AnySliceMut and
\* dereferenced with deref or deref_mut gives a view equal to the view
\* converted in first-element address, length, stride and type tag;
\* AnySlicePtr::len() is the length of the slice erased and is_empty() holds
\* exactly when that length is 0.
C29_ViewPtrRoundTrip ==
    /\ \A d \in DOMAIN handles :
           handles[d].by \in {"AnySlicePtr::deref", "AnySlicePtr::deref_mut"} =>
               LET back == handles[d].v
                   original == handles[Converted(handles[d].recv)].v
               IN  /\ back.ptr = original.ptr
                   /\ back.len = original.len
                   /\ back.type_id = original.type_id
                   /\ "stride" \in DOMAIN back
                   /\ back.stride = original.stride
    /\ \A p \in DOMAIN handles :
           handles[p].v.kind = "AnySlicePtr" =>
               /\ AnySlicePtr_len(handles[p].v) = handles[Converted(p)].from.len
               /\ AnySlicePtr_is_empty(handles[p].v) <=> handles[Converted(p)].from.len = 0

====
